---- MODULE Spec2Model ----
(***************************************************************************)
(* The event dispatch registry of the beacon-sdk: class BeaconEventHandler *)
(* of src/src/events.ts (callbackMap, constructor, on, emit,               *)
(* overrideDefaults, setAllHandlers) over the BeaconEvent catalog and the  *)
(* defaultEventCallbacks table.                                            *)
(*                                                                         *)
(* JavaScript arrays are objects: callbackMap holds references into a heap *)
(* of arrays, so that sharing of one array between kinds or instances is   *)
(* something the model can express.  Execution is single-threaded and      *)
(* run-to-completion: while an emit call is on the stack nothing but its   *)
(* own steps run, and promise continuations run only on an empty stack.    *)
(***************************************************************************)
EXTENDS Integers, Sequences, FiniteSets, TLC

VARIABLES
    callbackMap,   \* instance -> (event -> reference of its listener array)
    heap,          \* reference -> array of handlers (sequence); reference = index
    ctorArgs,      \* instance -> the arguments its constructor was called with
    stack,         \* <<>> or <<frame>>: the emit call that is executing
    emits,         \* every emit call made so far, in call order
    invocations,   \* every listener invocation made so far, in invocation order
    errorLog,      \* per invocation, the events logger.error was called with for it
    ons            \* every on() call made so far, in call order

vars == <<callbackMap, heap, ctorArgs, stack, emits, invocations, errorLog, ons>>

----------------------------------------------------------------------------
(* Bounds of the model *)

\* calls of on() and emit() per behaviour, calls of on() made by a running
\* listener included
MaxCalls == 3

\* the same, in the behaviours of two instances
MaxCallsTwo == 2

----------------------------------------------------------------------------
(* The catalog: enum BeaconEvent *)

BeaconEvent ==
    { "PERMISSION_REQUEST_SENT", "PERMISSION_REQUEST_SUCCESS", "PERMISSION_REQUEST_ERROR",
      "OPERATION_REQUEST_SENT", "OPERATION_REQUEST_SUCCESS", "OPERATION_REQUEST_ERROR",
      "SIGN_REQUEST_SENT", "SIGN_REQUEST_SUCCESS", "SIGN_REQUEST_ERROR",
      "BROADCAST_REQUEST_SENT", "BROADCAST_REQUEST_SUCCESS", "BROADCAST_REQUEST_ERROR",
      "ACKNOWLEDGE_RECEIVED", "LOCAL_RATE_LIMIT_REACHED", "NO_PERMISSIONS",
      "ACTIVE_ACCOUNT_SET", "ACTIVE_TRANSPORT_SET",
      "PAIR_INIT", "PAIR_SUCCESS", "CHANNEL_CLOSED",
      "P2P_CHANNEL_CONNECT_SUCCESS", "P2P_LISTEN_FOR_CHANNEL_OPEN",
      "INTERNAL_ERROR", "UNKNOWN" }

\* The keys of the callbackMap object literal, in the order it lists them
\* (the order Object.keys(this.callbackMap) yields).
callbackMapKeys ==
    << "PERMISSION_REQUEST_SENT", "PERMISSION_REQUEST_SUCCESS", "PERMISSION_REQUEST_ERROR",
       "OPERATION_REQUEST_SENT", "OPERATION_REQUEST_SUCCESS", "OPERATION_REQUEST_ERROR",
       "SIGN_REQUEST_SENT", "SIGN_REQUEST_SUCCESS", "SIGN_REQUEST_ERROR",
       "BROADCAST_REQUEST_SENT", "BROADCAST_REQUEST_SUCCESS", "BROADCAST_REQUEST_ERROR",
       "ACKNOWLEDGE_RECEIVED", "LOCAL_RATE_LIMIT_REACHED", "NO_PERMISSIONS",
       "ACTIVE_ACCOUNT_SET", "ACTIVE_TRANSPORT_SET",
       "PAIR_INIT", "PAIR_SUCCESS",
       "P2P_CHANNEL_CONNECT_SUCCESS", "P2P_LISTEN_FOR_CHANNEL_OPEN",
       "CHANNEL_CLOSED", "INTERNAL_ERROR", "UNKNOWN" >>

----------------------------------------------------------------------------
(* Handlers: function values, compared by reference.                      *)
(* fn is the function's name; a closure also carries what it captured:    *)
(* the event name and, for the closures setAllHandlers creates, the       *)
(* instance that created it.                                              *)

Fn(name) == [fn |-> name, event |-> "", this |-> 0]
Closure(name, event, this) == [fn |-> name, event |-> event, this |-> this]

\* the value undefined, where a handler or an override entry is expected
Undefined == Fn("undefined")

\* const emptyHandler = () => async () => {}: every call yields a new function
emptyHandler(event) == Closure("emptyHandler", event, 0)

\* the table defaultEventCallbacks
defaultEventCallbacks(event) ==
    CASE event \in { "PERMISSION_REQUEST_SENT", "OPERATION_REQUEST_SENT",
                     "SIGN_REQUEST_SENT", "BROADCAST_REQUEST_SENT" }
            -> Fn("showSentToast")
      [] event \in { "PERMISSION_REQUEST_ERROR", "OPERATION_REQUEST_ERROR",
                     "SIGN_REQUEST_ERROR", "BROADCAST_REQUEST_ERROR" }
            -> Fn("showErrorAlert")
      [] event = "PERMISSION_REQUEST_SUCCESS" -> Fn("showPermissionSuccessAlert")
      [] event = "OPERATION_REQUEST_SUCCESS" -> Fn("showOperationSuccessAlert")
      [] event = "SIGN_REQUEST_SUCCESS" -> Fn("showSignSuccessAlert")
      [] event = "BROADCAST_REQUEST_SUCCESS" -> Fn("showBroadcastSuccessAlert")
      [] event = "ACKNOWLEDGE_RECEIVED" -> Fn("showAcknowledgedToast")
      [] event = "LOCAL_RATE_LIMIT_REACHED" -> Fn("showRateLimitReached")
      [] event = "NO_PERMISSIONS" -> Fn("showNoPermissionAlert")
      [] event \in { "ACTIVE_ACCOUNT_SET", "ACTIVE_TRANSPORT_SET", "UNKNOWN" }
            -> emptyHandler(event)
      [] event = "PAIR_INIT" -> Fn("showPairAlert")
      [] event = "PAIR_SUCCESS" -> Fn("showExtensionConnectedAlert")
      [] event = "P2P_CHANNEL_CONNECT_SUCCESS" -> Fn("showBeaconConnectedAlert")
      [] event = "P2P_LISTEN_FOR_CHANNEL_OPEN" -> Fn("showQrAlert")
      [] event = "CHANNEL_CLOSED" -> Fn("showChannelClosedAlert")
      [] event = "INTERNAL_ERROR" -> Fn("showInternalErrorAlert")

\* the handler setAllHandlers installs when it is given none:
\* (...data) => { logger.log(untypedEvent, ...data) }
logHandler(untypedEvent, this) == Closure("logHandler", untypedEvent, this)

----------------------------------------------------------------------------
(* Inputs *)

\* the event kinds the operations are called with
EventInputs == { "PERMISSION_REQUEST_ERROR", "CHANNEL_CLOSED" }

\* handlers supplied by the application
UserHandlers == { Fn("A"), Fn("B") }

\* The (data, eventCallback) emit is called with.  BeaconEventType fixes the
\* payload type of each kind: CHANNEL_CLOSED carries a string, the *_ERROR
\* kinds an ErrorResponse, whose emit also passes alert buttons.
EmitArgs(event) ==
    IF event = "CHANNEL_CLOSED"
    THEN << "peer-id-123", "undefined" >>
    ELSE << "NOT_GRANTED", "buttons" >>

\* The eventsToOverride objects the constructor is called with: the keys in
\* insertion order, each with its value, which is { handler } or undefined.
Entry(key, value) == [key |-> key, value |-> value]

OverrideObjects ==
    { << >>,
      << Entry("CHANNEL_CLOSED", Fn("A")) >>,
      << Entry("PERMISSION_REQUEST_ERROR", Fn("A")) >>,
      << Entry("CHANNEL_CLOSED", Fn("A")), Entry("PERMISSION_REQUEST_ERROR", Fn("B")) >>,
      << Entry("PERMISSION_REQUEST_ERROR", Fn("A")), Entry("CHANNEL_CLOSED", Undefined) >> }

ConstructorArgs ==
    { [eventsToOverride |-> o, overrideAll |-> a] : o \in OverrideObjects, a \in BOOLEAN }

\* the arguments each of two instances is constructed with
ConstructorArgsTwo ==
    { [eventsToOverride |-> o, overrideAll |-> a] :
        o \in { << >>, << Entry("CHANNEL_CLOSED", Fn("A")) >> }, a \in BOOLEAN }

----------------------------------------------------------------------------
(* The store: the callbackMap field of every instance, and the heap *)

Store(cm, h) == [callbackMap |-> cm, heap |-> h]

\* obj[key] = value on an object: the key is added when it is not there
Assign(obj, key, value) ==
    [k \in (DOMAIN obj) \cup {key} |-> IF k = key THEN value ELSE obj[k]]

\* the keys of an instance's callbackMap, in Object.keys order
ObjectKeys(cm) == SelectSeq(callbackMapKeys, LAMBDA k : k \in DOMAIN cm)

\* (a slip: a handler that is already subscribed is not added again)
pushUnique(array, handler) ==
    IF \E i \in 1..Len(array) : array[i] = handler THEN array ELSE Append(array, handler)

\* (a slip: array.unshift(handler))
unshift(array, handler) == << handler >> \o array

\* array.push(handler)
push(array, handler) == Append(array, handler)

\* (a slip: the literal lacks the last kind, UNKNOWN)
callbackMapInitMissingKey(s, this) ==
    LET base == Len(s.heap)
        n    == Len(callbackMapKeys) - 1
    IN Store(
         Assign(s.callbackMap, this,
                [k \in { callbackMapKeys[i] : i \in 1..n } |->
                    base + (CHOOSE i \in 1..n : callbackMapKeys[i] = k)]),
         s.heap \o [i \in 1..n |-> << defaultEventCallbacks(callbackMapKeys[i]) >>])

\* (a slip: the map is a static field: a second instance gets the arrays
\* of the first)
callbackMapInitStatic(s, this) ==
    IF DOMAIN s.callbackMap = { }
    THEN LET base == Len(s.heap)
             n    == Len(callbackMapKeys)
         IN Store(
              Assign(s.callbackMap, this,
                     [k \in BeaconEvent |->
                         base + (CHOOSE i \in 1..n : callbackMapKeys[i] = k)]),
              s.heap \o [i \in 1..n |-> << defaultEventCallbacks(callbackMapKeys[i]) >>])
    ELSE Store(
           Assign(s.callbackMap, this,
                  s.callbackMap[CHOOSE other \in DOMAIN s.callbackMap : TRUE]),
           s.heap)

\* (a slip: the kinds that have the same default handler are given one
\* array, as with a constant `const sent = [showSentToast]` used four times)
callbackMapInitOneArrayPerHandler(s, this) ==
    LET base == Len(s.heap)
        n    == Len(callbackMapKeys)
        first(k) == CHOOSE i \in 1..n :
                       /\ defaultEventCallbacks(callbackMapKeys[i]) = defaultEventCallbacks(k)
                       /\ \A j \in 1..(i - 1) :
                             defaultEventCallbacks(callbackMapKeys[j]) # defaultEventCallbacks(k)
    IN Store(
         Assign(s.callbackMap, this, [k \in BeaconEvent |-> base + first(k)]),
         s.heap \o [i \in 1..n |-> << defaultEventCallbacks(callbackMapKeys[i]) >>])

\* The field initializer of callbackMap: one new array literal per kind,
\* holding the kind's default handler.
callbackMapInit(s, this) ==
    LET base == Len(s.heap)
        n    == Len(callbackMapKeys)
    IN Store(
         Assign(s.callbackMap, this,
                [k \in BeaconEvent |->
                    base + (CHOOSE i \in 1..n : callbackMapKeys[i] = k)]),
         s.heap \o [i \in 1..n |-> << defaultEventCallbacks(callbackMapKeys[i]) >>])

\* (a slip: the assignment of the new empty array is left out, and the
\* handler is pushed onto the array the kind already has)
setAllHandlersStepKeep(s, this, eventType, handler) ==
    LET ref   == s.callbackMap[this][eventType]
        added == IF handler # Undefined THEN handler ELSE logHandler(eventType, this)
    IN Store(s.callbackMap, [s.heap EXCEPT ![ref] = push(@, added)])

\* (a slip: the new empty array is assigned and nothing is pushed onto it)
setAllHandlersStepEmpty(s, this, eventType, handler) ==
    Store(
      [s.callbackMap EXCEPT ![this] = Assign(@, eventType, Len(s.heap) + 1)],
      Append(s.heap, << >>))

\* One iteration of setAllHandlers' forEach: a new empty array is assigned to
\* the kind, then the handler (or the logging closure) is pushed onto it.
setAllHandlersStep(s, this, eventType, handler) ==
    LET ref   == Len(s.heap) + 1
        added == IF handler # Undefined THEN handler ELSE logHandler(eventType, this)
    IN Store(
         [s.callbackMap EXCEPT ![this] = Assign(@, eventType, ref)],
         Append(s.heap, push(<< >>, added)))

RECURSIVE setAllHandlersFrom(_, _, _, _)
setAllHandlersFrom(s, this, keys, handler) ==
    IF keys = << >> THEN s
    ELSE setAllHandlersFrom(setAllHandlersStep(s, this, Head(keys), handler),
                            this, Tail(keys), handler)

setAllHandlers(s, this, handler) ==
    setAllHandlersFrom(s, this, ObjectKeys(s.callbackMap[this]), handler)

\* (a slip: the replacement handler is pushed onto the kind's array)
overrideDefaultsStepPush(s, this, entry) ==
    IF entry.value # Undefined
    THEN Store(s.callbackMap,
               [s.heap EXCEPT ![s.callbackMap[this][entry.key]] = push(@, entry.value)])
    ELSE s

\* One iteration of overrideDefaults' forEach: an entry that is defined
\* replaces the kind's array by a new array holding its handler.
overrideDefaultsStep(s, this, entry) ==
    IF entry.value # Undefined
    THEN Store(
           [s.callbackMap EXCEPT ![this] = Assign(@, entry.key, Len(s.heap) + 1)],
           Append(s.heap, << entry.value >>))
    ELSE s

RECURSIVE overrideDefaults(_, _, _)
overrideDefaults(s, this, eventsToOverride) ==
    IF eventsToOverride = << >> THEN s
    ELSE overrideDefaults(overrideDefaultsStep(s, this, Head(eventsToOverride)),
                          this, Tail(eventsToOverride))

\* (a slip: the flag is not tested, every construction overrides all)
constructorSetAllAlways(s, this, eventsToOverride, overrideAll) ==
    overrideDefaults(setAllHandlers(s, this, Undefined), this, eventsToOverride)

\* (a slip: the two calls are in the other order)
constructorOverrideFirst(s, this, eventsToOverride, overrideAll) ==
    LET s1 == overrideDefaults(s, this, eventsToOverride)
    IN IF overrideAll THEN setAllHandlers(s1, this, Undefined) ELSE s1

\* The constructor body, run on the initialized fields.
constructor(s, this, eventsToOverride, overrideAll) ==
    LET s1 == IF overrideAll THEN setAllHandlers(s, this, Undefined) ELSE s
    IN overrideDefaults(s1, this, eventsToOverride)

\* new BeaconEventHandler(eventsToOverride, overrideAll)
New(s, this, args) ==
    constructor(callbackMapInit(s, this), this, args.eventsToOverride, args.overrideAll)

\* on(event, eventCallback)
on(s, this, event, eventCallback) ==
    LET cm      == s.callbackMap[this]
        present == event \in DOMAIN cm
        \* const listeners = this.callbackMap[event] || []
        h1      == IF present THEN s.heap ELSE Append(s.heap, << >>)
        ref     == IF present THEN cm[event] ELSE Len(h1)
    IN Store(
         \* this.callbackMap[event] = listeners
         [s.callbackMap EXCEPT ![this] = Assign(@, event, ref)],
         \* listeners.push(eventCallback)
         [h1 EXCEPT ![ref] = push(@, eventCallback)])

----------------------------------------------------------------------------
(* Reading the registry *)

Instances == DOMAIN callbackMap

CallsMade == Len(ons) + Len(emits)

\* the calls a behaviour makes at most
CallLimit == IF Cardinality(Instances) = 1 THEN MaxCalls ELSE MaxCallsTwo

\* the listener array of a kind in a store, as a sequence; << >> when the
\* key is missing
ListenersIn(s, this, event) ==
    IF event \in DOMAIN s.callbackMap[this]
    THEN s.heap[s.callbackMap[this][event]]
    ELSE << >>

Listeners(this, event) == ListenersIn(Store(callbackMap, heap), this, event)

\* the registry of an instance as a value: every kind's list
RegistryIn(s, this) == [k \in BeaconEvent |-> ListenersIn(s, this, k)]

----------------------------------------------------------------------------
(* What a listener can do when emit invokes it *)

\* The synchronous part of the call listener(data, eventCallback): it throws
\* or it returns (a promise or undefined).  The default handlers, the empty
\* handlers and the logging closures are async functions or plain logging
\* calls, which return; a handler of the application may also throw.
SyncOutcomes(listener) ==
    IF listener \in UserHandlers THEN { "throw", "return" } ELSE { "return" }

\* How the awaited value settles, if it ever does.  An empty handler has an
\* empty body and a logging closure returns undefined: both only fulfil.
AsyncOutcomes(listener) ==
    IF listener.fn \in { "emptyHandler", "logHandler" }
    THEN { "fulfilled" }
    ELSE { "fulfilled", "rejected" }

\* the arguments of a call this.on(event, eventCallback)
OnCall(this, event, eventCallback) ==
    [this |-> this, event |-> event, eventCallback |-> eventCallback]

\* The on() calls a running listener may make: a handler of the application
\* holds the event handler object and may subscribe, from its own body, a
\* handler to the kind that is being emitted.
ReentrantOn(listener, this, event) ==
    IF listener \in UserHandlers /\ CallsMade < CallLimit
    THEN { OnCall(this, event, h) : h \in UserHandlers }
    ELSE { }

----------------------------------------------------------------------------
(* emit: the pieces of lines 547-562 *)

\* (a slip: the listener is called with the payload alone)
listenerArgsDataOnly(data, eventCallback) == << data, "undefined" >>

\* the arguments the listener is called with: listener(data, eventCallback)
listenerArgs(data, eventCallback) == << data, eventCallback >>

\* if (listeners && listeners.length > 0): the forEach runs
hasListeners(this, event) ==
    /\ event \in DOMAIN callbackMap[this]
    /\ Len(heap[callbackMap[this][event]]) > 0

\* Array.prototype.forEach reads the length once, before the first call, and
\* visits the indexes below it in ascending order.
forEachLength(array) == Len(array)

\* (a slip: the index is not advanced)
forEachNextSame(i) == i

forEachNext(i) == i + 1

\* (a slip: a callback that is not async and has no try/catch lets a throw
\* of the listener unwind forEach and emit)
escapesThrow(outcome) == outcome = "throw"

\* The forEach callback is an async function whose body is one try/catch
\* around `await listener(...)`: a failure of the listener, thrown or
\* rejected, never leaves the callback.
escapes(outcome) == FALSE

\* (a slip: the catch block also unsubscribes the listener that failed)
catchBlockRemove(s, ref, i) ==
    IF i <= Len(s.heap[ref])
    THEN Store(s.callbackMap,
               [s.heap EXCEPT ![ref] = SubSeq(@, 1, i - 1) \o SubSeq(@, i + 1, Len(@))])
    ELSE s

\* The catch block: logger.error(...) and nothing else.  The array the
\* failing listener sits in, at index i, is left as it is.
catchBlock(s, ref, i) == s

\* (a slip: the event is read from a field that the latest emit call set)
loggedEventLatest(emit) == emits[Len(emits)].event

\* the event named by logger.error(`error handling event ${event}`, ...):
\* the parameter of the emit call the callback was created in
loggedEvent(emit) == emits[emit].event

\* (a slip: a loop `for (i = 0; i < listeners.length; i++)`, which reads the
\* length before every iteration)
forEachDoneLengthReadAgain(frame) ==
    \/ frame.listeners = 0
    \/ frame.i > Len(heap[frame.listeners])

\* (a slip: listeners.some(async ...) stops at the first callback, whose
\* promise is truthy)
forEachDoneAfterFirst(frame) ==
    \/ frame.i > 1
    \/ frame.listeners = 0

\* forEach is over when it has visited every index below the length it read
\* (an index the array no longer has is skipped)
forEachDone(frame) ==
    \/ frame.i > frame.len
    \/ frame.listeners = 0
    \/ frame.i > Len(heap[frame.listeners])

\* (a slip: emit awaits the callbacks, as with await Promise.all(...))
emitBodyDoneAwaited(frame) ==
    /\ forEachDone(frame)
    /\ \A n \in 1..Len(invocations) :
          invocations[n].emit = frame.emit => invocations[n].state # "awaiting"

\* emit's body has no await: it ends when forEach ends, and the promise emit
\* returned fulfils
emitBodyDone(frame) == forEachDone(frame)

\* (a slip: `for (const listener of listeners) { await ... }` in an async
\* emit goes on to the next listener when the pending one has settled)
forEachWaitsForPending(state) == state = "awaiting"

\* forEach discards what its callback returns: the promise of a callback
\* that is suspended at its await keeps forEach from nothing
forEachWaitsFor(state) == FALSE

Frame(emit, listeners, len) == [emit |-> emit, listeners |-> listeners, len |-> len, i |-> 1]

----------------------------------------------------------------------------
(* Initial states: one instance, constructed *)

EmptyStore == Store(<< >>, << >>)

Init ==
    \E args \in ConstructorArgs :
        LET s == New(EmptyStore, 1, args)
        IN /\ callbackMap = s.callbackMap
           /\ heap = s.heap
           /\ ctorArgs = Assign(<< >>, 1, args)
           /\ stack = << >>
           /\ emits = << >>
           /\ invocations = << >>
           /\ errorLog = << >>
           /\ ons = << >>

----------------------------------------------------------------------------
(* Actions *)

\* A call of on(event, eventCallback) from the application.  Execution is
\* single-threaded: the call runs when no emit call is executing.
On(this, event, eventCallback) ==
    /\ stack = << >>
    /\ CallsMade < CallLimit
    /\ LET s == on(Store(callbackMap, heap), this, event, eventCallback)
       IN /\ callbackMap' = s.callbackMap
          /\ heap' = s.heap
    /\ ons' = Append(ons, OnCall(this, event, eventCallback))
    /\ UNCHANGED <<ctorArgs, stack, emits, invocations, errorLog>>

\* A call of emit(event, data, eventCallback): the listener array is looked
\* up and, when it has entries, forEach starts on it.
EmitCall(this, event, data, eventCallback) ==
    /\ stack = << >>
    /\ CallsMade < CallLimit
    /\ LET go  == hasListeners(this, event)
           ref == IF go THEN callbackMap[this][event] ELSE 0
           len == IF go THEN forEachLength(heap[ref]) ELSE 0
       IN /\ stack' = << Frame(Len(emits) + 1, ref, len) >>
          /\ emits' = Append(emits,
                [this |-> this, event |-> event, data |-> data,
                 eventCallback |-> eventCallback,
                 array |-> ref, listeners |-> Listeners(this, event),
                 ons |-> Len(ons),
                 result |-> "running"])
    /\ UNCHANGED <<callbackMap, heap, ctorArgs, invocations, errorLog, ons>>

\* forEach calls its callback on the next index: the listener is invoked,
\* its synchronous part runs (and may call on()), and it throws or returns.
\* A throw lands in the catch block, which logs it; a return leaves the
\* callback suspended at its await.  forEach then goes on.
InvokeListener(reentrant, outcome) ==
    /\ stack # << >>
    /\ LET frame    == stack[1]
           e        == emits[frame.emit]
           listener == heap[frame.listeners][frame.i]
           args     == listenerArgs(e.data, e.eventCallback)
           called   == IF reentrant = Undefined
                       THEN Store(callbackMap, heap)
                       ELSE on(Store(callbackMap, heap), reentrant.this,
                               reentrant.event, reentrant.eventCallback)
           s        == IF outcome = "throw" /\ ~escapes(outcome)
                       THEN catchBlock(called, frame.listeners, frame.i)
                       ELSE called
       IN /\ ~forEachDone(frame)
          /\ \A n \in 1..Len(invocations) :
                invocations[n].emit = frame.emit => ~forEachWaitsFor(invocations[n].state)
          /\ reentrant \in ReentrantOn(listener, e.this, e.event) \cup { Undefined }
          /\ outcome \in SyncOutcomes(listener)
          /\ callbackMap' = s.callbackMap
          /\ heap' = s.heap
          /\ ons' = IF reentrant = Undefined THEN ons ELSE Append(ons, reentrant)
          /\ invocations' = Append(invocations,
                [emit |-> frame.emit, index |-> frame.i, listener |-> listener,
                 data |-> args[1], eventCallback |-> args[2],
                 calledOn |-> reentrant # Undefined,
                 state |-> IF outcome = "return" THEN "awaiting"
                           ELSE IF escapes(outcome) THEN "uncaught" ELSE "caught"])
          /\ errorLog' = Append(errorLog,
                                IF outcome = "throw" /\ ~escapes(outcome)
                                THEN << loggedEvent(frame.emit) >>
                                ELSE << >>)
          /\ IF outcome = "throw" /\ escapes(outcome)
             THEN \* the exception unwinds forEach and emit: its promise rejects
                  /\ stack' = << >>
                  /\ emits' = [emits EXCEPT ![frame.emit].result = "rejected"]
             ELSE /\ stack' = << [frame EXCEPT !.i = forEachNext(@)] >>
                  /\ emits' = emits
    /\ UNCHANGED ctorArgs

\* forEach is over and emit's body ends: the promise emit returned fulfils.
EmitReturn ==
    /\ stack # << >>
    /\ emitBodyDone(stack[1])
    /\ emits' = [emits EXCEPT ![stack[1].emit].result = "fulfilled"]
    /\ stack' = << >>
    /\ UNCHANGED <<callbackMap, heap, ctorArgs, invocations, errorLog, ons>>

\* The value a callback awaits settles, and the callback resumes (a promise
\* continuation: it runs on an empty stack).  A rejection lands in the catch
\* block, which logs it.
Settle(n, outcome) ==
    /\ stack = << >>
    /\ n \in 1..Len(invocations)
    /\ invocations[n].state = "awaiting"
    /\ outcome \in AsyncOutcomes(invocations[n].listener)
    /\ invocations' = [invocations EXCEPT ![n].state = outcome]
    /\ LET s == IF outcome = "rejected" /\ ~escapes(outcome)
                THEN catchBlock(Store(callbackMap, heap),
                                emits[invocations[n].emit].array, invocations[n].index)
                ELSE Store(callbackMap, heap)
       IN /\ callbackMap' = s.callbackMap
          /\ heap' = s.heap
    /\ errorLog' = IF outcome = "rejected" /\ ~escapes(outcome)
                   THEN [errorLog EXCEPT ![n] = Append(@, loggedEvent(invocations[n].emit))]
                   ELSE errorLog
    /\ UNCHANGED <<ctorArgs, stack, emits, ons>>

Next ==
    \/ \E this \in Instances, event \in EventInputs, h \in UserHandlers :
          On(this, event, h)
    \/ \E this \in Instances, event \in EventInputs :
          EmitCall(this, event, EmitArgs(event)[1], EmitArgs(event)[2])
    \/ \E reentrant \in
            { OnCall(t, k, h) :
                t \in Instances, k \in EventInputs, h \in UserHandlers } \cup { Undefined },
          outcome \in { "throw", "return" } :
          InvokeListener(reentrant, outcome)
    \/ EmitReturn
    \/ \E n \in 1..Len(invocations), outcome \in { "fulfilled", "rejected" } :
          Settle(n, outcome)

Spec == Init /\ [][Next]_vars

\* a step of an executing emit call
EmitStep ==
    \/ \E reentrant \in
            { OnCall(t, k, h) :
                t \in Instances, k \in EventInputs, h \in UserHandlers } \cup { Undefined },
          outcome \in { "throw", "return" } :
          InvokeListener(reentrant, outcome)
    \/ EmitReturn

\* The engine runs a call to its end: an emit call that is executing takes
\* its next step.  Nothing makes a pending promise settle.
LiveSpec == Spec /\ WF_vars(EmitStep)

\* Two instances, constructed one after the other.
InitTwo ==
    \E args1 \in ConstructorArgsTwo, args2 \in ConstructorArgsTwo :
        LET s == New(New(EmptyStore, 1, args1), 2, args2)
        IN /\ callbackMap = s.callbackMap
           /\ heap = s.heap
           /\ ctorArgs = Assign(Assign(<< >>, 1, args1), 2, args2)
           /\ stack = << >>
           /\ emits = << >>
           /\ invocations = << >>
           /\ errorLog = << >>
           /\ ons = << >>

SpecTwo == InitTwo /\ [][Next]_vars

----------------------------------------------------------------------------
(* Reading the history *)

Emits == 1..Len(emits)
Invocations == 1..Len(invocations)

\* the invocations an emit call made, in the order it made them
InvocationsOf(e) == SelectSeq(invocations, LAMBDA v : v.emit = e)

\* the emit call is over
Returned(e) == emits[e].result # "running"

\* the listener failed: it threw, or what it returned rejected
Failed(v) == v.state \in { "caught", "rejected", "uncaught" }

----------------------------------------------------------------------------
(* Claims *)

\* C1: an emit call invokes the subscribers that are in the kind's list when
\* it is called, each exactly once and in list order, each with the data and
\* the eventCallback emit was given, whether or not subscribers fail: the
\* invocations made so far are a prefix of the list, and all of it once emit
\* has returned.
C1_EmitInvokesAllInOrder ==
    \A e \in Emits :
        LET c   == emits[e]
            inv == InvocationsOf(e)
        IN /\ Len(inv) <= Len(c.listeners)
           /\ \A j \in 1..Len(inv) :
                 /\ inv[j].index = j
                 /\ inv[j].listener = c.listeners[j]
                 /\ inv[j].data = c.data
                 /\ inv[j].eventCallback = c.eventCallback
           /\ Returned(e) => Len(inv) = Len(c.listeners)

\* an emit with alert buttons has returned; its first subscriber threw and
\* the second was invoked all the same
C1_Witness ==
    \E e \in Emits :
        /\ Returned(e)
        /\ emits[e].eventCallback = "buttons"
        /\ Len(emits[e].listeners) >= 2
        /\ Len(InvocationsOf(e)) = Len(emits[e].listeners)
        /\ InvocationsOf(e)[1].state = "caught"

\* C2: a subscriber that fails, by throwing or by rejecting, does not keep
\* the subscribers after it from being invoked in the same emit call, and
\* the failure never reaches emit's caller: no emit call rejects or throws.
C2_FailureIsolated ==
    /\ \A e \in Emits : emits[e].result # "rejected"
    /\ \A n \in Invocations :
          LET v == invocations[n]
          IN /\ v.state # "uncaught"
             /\ (Failed(v) /\ Returned(v.emit)) =>
                   \A i \in (v.index + 1)..Len(emits[v.emit].listeners) :
                       \E m \in Invocations :
                           /\ invocations[m].emit = v.emit
                           /\ invocations[m].index = i

\* the first subscriber threw, the second was invoked and later rejected,
\* and emit fulfilled
C2_Witness ==
    \E e \in Emits :
        /\ emits[e].result = "fulfilled"
        /\ Len(InvocationsOf(e)) >= 2
        /\ InvocationsOf(e)[1].state = "caught"
        /\ InvocationsOf(e)[2].state = "rejected"

\* C3: emit does not wait for its subscribers: an executing emit call can
\* always take its next step (invoke the next subscriber, or return),
\* whatever asynchronous work of invoked subscribers is pending, so it
\* returns also when that work never completes.
C3_EmitDoesNotWait ==
    stack # << >> => ENABLED EmitStep

\* emit has fulfilled while two subscribers it invoked are still pending
C3_Witness ==
    \E e \in Emits :
        /\ emits[e].result = "fulfilled"
        /\ Len(InvocationsOf(e)) >= 2
        /\ \A j \in 1..Len(InvocationsOf(e)) : InvocationsOf(e)[j].state = "awaiting"

----------------------------------------------------------------------------
(* Reading the construction and the on() calls *)

\* the construction overrode the kind: eventsToOverride has a defined entry
Overridden(this, event) ==
    \E i \in 1..Len(ctorArgs[this].eventsToOverride) :
        /\ ctorArgs[this].eventsToOverride[i].key = event
        /\ ctorArgs[this].eventsToOverride[i].value # Undefined

\* the replacement handler of an overridden kind
Replacement(this, event) ==
    LET o == ctorArgs[this].eventsToOverride
    IN o[CHOOSE i \in 1..Len(o) : o[i].key = event].value

\* the keys of eventsToOverride
OverrideKeys(this) ==
    { ctorArgs[this].eventsToOverride[i].key : i \in 1..Len(ctorArgs[this].eventsToOverride) }

\* the kind is a key of eventsToOverride
InOverrideMap(this, event) ==
    \E i \in 1..Len(ctorArgs[this].eventsToOverride) :
        ctorArgs[this].eventsToOverride[i].key = event

DefaultHandlers == { defaultEventCallbacks(k) : k \in BeaconEvent }

RECURSIVE Handlers(_)
Handlers(calls) ==
    IF calls = << >> THEN << >> ELSE << Head(calls).eventCallback >> \o Handlers(Tail(calls))

\* the handlers the first n on() calls subscribed to a kind, in call order
Subscribed(this, event, n) ==
    Handlers(SelectSeq(SubSeq(ons, 1, n),
                       LAMBDA c : c.this = this /\ c.event = event))

\* the listeners an emit call invoked, in invocation order
Invoked(e) == [j \in 1..Len(InvocationsOf(e)) |-> InvocationsOf(e)[j].listener]

\* s ends with t
EndsWith(s, t) ==
    /\ Len(t) <= Len(s)
    /\ SubSeq(s, Len(s) - Len(t) + 1, Len(s)) = t

----------------------------------------------------------------------------

\* C4: on(k, h) appends h at the end of k's list and keeps every entry in
\* place, also when h is already in the list; an emit on k made after it
\* invokes, last and in subscription order, the handlers subscribed before
\* the emit (a handler subscribed twice is invoked twice).
C4_OnAppends ==
    /\ [][ Len(ons') = Len(ons) + 1 =>
             LET c == ons'[Len(ons')]
             IN ListenersIn(Store(callbackMap', heap'), c.this, c.event)
                  = Append(Listeners(c.this, c.event), c.eventCallback) ]_vars
    /\ [](\A e \in Emits :
            Returned(e) =>
              EndsWith(Invoked(e), Subscribed(emits[e].this, emits[e].event, emits[e].ons)))

\* the same handler was subscribed twice to a kind and an emit on that kind
\* then invoked the default handler first and the handler twice
C4_Witness ==
    \E e \in Emits :
        /\ Returned(e)
        /\ Subscribed(emits[e].this, emits[e].event, emits[e].ons) = << Fn("A"), Fn("A") >>
        /\ Invoked(e) = << defaultEventCallbacks(emits[e].event), Fn("A"), Fn("A") >>

\* C5: a kind the construction overrode has the replacement handler as its
\* only subscriber (until on() adds to it): an emit on it invokes the
\* replacement handler and never the kind's default handler.
C5_OverrideReplaces ==
    \A this \in Instances : \A k \in OverrideKeys(this) :
        Overridden(this, k) =>
          /\ Listeners(this, k) = << Replacement(this, k) >> \o Subscribed(this, k, Len(ons))
          /\ \A n \in Invocations :
                (emits[invocations[n].emit].this = this /\ emits[invocations[n].emit].event = k)
                  => invocations[n].listener # defaultEventCallbacks(k)
          /\ \A e \in Emits :
                (emits[e].this = this /\ emits[e].event = k /\ Returned(e)
                   /\ Subscribed(this, k, emits[e].ons) = << >>)
                  => Invoked(e) = << Replacement(this, k) >>

\* an emit on an overridden kind, made before any on(), has returned having
\* invoked the replacement handler alone
C5_Witness ==
    \E e \in Emits :
        /\ Overridden(emits[e].this, emits[e].event)
        /\ Returned(e)
        /\ ons = << >>
        /\ Invoked(e) = << Replacement(emits[e].this, emits[e].event) >>

\* C6: after construction without the override-all flag every kind that the
\* override map does not override has its default handler as its only
\* subscriber (until on() adds to it), whatever other kinds are overridden.
C6_DefaultsKept ==
    \A this \in Instances :
        ~ctorArgs[this].overrideAll =>
          \A k \in BeaconEvent :
              ~Overridden(this, k) =>
                Listeners(this, k) = << defaultEventCallbacks(k) >> \o Subscribed(this, k, Len(ons))

\* one kind is overridden and another, which has the same default handler as
\* two more kinds, still has its default list
C6_Witness ==
    \E this \in Instances :
        /\ ~ctorArgs[this].overrideAll
        /\ Overridden(this, "CHANNEL_CLOSED")
        /\ ~InOverrideMap(this, "PERMISSION_REQUEST_ERROR")
        /\ Listeners(this, "PERMISSION_REQUEST_ERROR") = << Fn("showErrorAlert") >>
        /\ Listeners(this, "CHANNEL_CLOSED") = << Replacement(this, "CHANNEL_CLOSED") >>

\* C7: after construction with the override-all flag no default handler is
\* in any list; a kind that is not individually overridden has its logging
\* closure and, after it, what on() added; no emit ever invokes a default
\* handler.
C7_OverrideAllSilences ==
    \A this \in Instances :
        ctorArgs[this].overrideAll =>
          /\ \A k \in BeaconEvent :
                /\ \A i \in 1..Len(Listeners(this, k)) : Listeners(this, k)[i] \notin DefaultHandlers
                /\ ~Overridden(this, k) =>
                     Listeners(this, k) = << logHandler(k, this) >> \o Subscribed(this, k, Len(ons))
          /\ \A n \in Invocations :
                emits[invocations[n].emit].this = this
                  => invocations[n].listener \notin DefaultHandlers

\* with the flag set, an emit on a kind that is not overridden invoked the
\* logging closure and then a handler on() had added
C7_Witness ==
    \E e \in Emits :
        /\ ctorArgs[emits[e].this].overrideAll
        /\ ~Overridden(emits[e].this, emits[e].event)
        /\ Returned(e)
        /\ Invoked(e) = << logHandler(emits[e].event, emits[e].this), Fn("B") >>

\* the list a kind has when setAllHandlers(custom) and then
\* overrideDefaults(o) have run on the initialized fields
BlanketThenOverride(custom, o, k) ==
    ListenersIn(
        overrideDefaults(setAllHandlers(callbackMapInit(EmptyStore, 1), 1, custom), 1, o),
        1, k)

\* C8: a per-kind override wins over the blanket override.  The constructor
\* applies the blanket override first: with the flag set, an overridden kind
\* has its replacement handler (an emit on it invokes that handler and not
\* the blanket one) and every other kind has only the blanket handler, until
\* on() adds to them.  The same holds of setAllHandlers(custom) followed by
\* overrideDefaults(o), for every custom handler and override object (a
\* statement about the two methods alone, evaluated on the initial states).
C8_PerKindOverrideWins ==
    /\ \A this \in Instances :
          ctorArgs[this].overrideAll =>
            \A k \in BeaconEvent :
                IF Overridden(this, k)
                THEN /\ Listeners(this, k)
                          = << Replacement(this, k) >> \o Subscribed(this, k, Len(ons))
                     /\ \A e \in Emits :
                           (emits[e].this = this /\ emits[e].event = k /\ Returned(e))
                             => /\ Invoked(e)[1] = Replacement(this, k)
                                /\ \A j \in 1..Len(Invoked(e)) :
                                      Invoked(e)[j] # logHandler(k, this)
                ELSE Listeners(this, k)
                       = << logHandler(k, this) >> \o Subscribed(this, k, Len(ons))
    /\ CallsMade = 0 =>
          \A custom \in UserHandlers, o \in OverrideObjects : \A k \in BeaconEvent :
              BlanketThenOverride(custom, o, k) =
                  IF \E i \in 1..Len(o) : o[i].key = k /\ o[i].value # Undefined
                  THEN << o[CHOOSE i \in 1..Len(o) : o[i].key = k].value >>
                  ELSE << custom >>

\* with the flag set and CHANNEL_CLOSED overridden, an emit on CHANNEL_CLOSED
\* invoked the replacement handler alone, and another kind has only its
\* logging closure
C8_Witness ==
    \E e \in Emits :
        /\ ctorArgs[emits[e].this].overrideAll
        /\ emits[e].event = "CHANNEL_CLOSED"
        /\ Overridden(emits[e].this, "CHANNEL_CLOSED")
        /\ Returned(e)
        /\ Invoked(e) = << Replacement(emits[e].this, "CHANNEL_CLOSED") >>
        /\ Listeners(emits[e].this, "PERMISSION_REQUEST_ERROR")
              = << logHandler("PERMISSION_REQUEST_ERROR", emits[e].this) >>

\* C9: the callbackMap of every instance has an entry, an array, for every
\* event kind of the catalog in every reachable state, and right after
\* construction every kind's list is non-empty.
C9_EveryKindHasEntry ==
    \A this \in Instances :
        /\ DOMAIN callbackMap[this] = BeaconEvent
        /\ \A k \in BeaconEvent :
              /\ callbackMap[this][k] \in 1..Len(heap)
              /\ CallsMade = 0 => Len(Listeners(this, k)) >= 1

\* a registry built with the flag and an override, then used by on() and emit
C9_Witness ==
    \E this \in Instances :
        /\ ctorArgs[this].overrideAll
        /\ \E k \in BeaconEvent : Overridden(this, k)
        /\ Len(ons) >= 2
        /\ \E e \in Emits : Returned(e) /\ emits[e].ons = 2

\* C10: emit leaves the registry unchanged: a step in which no on() call is
\* made -- emit's call, its invocations, its return, the resumption of its
\* callbacks -- changes neither the map of any instance nor any array, so
\* that every kind's list is the same sequence after it, also when the
\* subscriber fails; and a subscriber that failed is invoked again, at the
\* same place, by a later emit on the kind.
C10_EmitLeavesRegistry ==
    /\ [][ ons' = ons => (callbackMap' = callbackMap /\ heap' = heap) ]_vars
    /\ [](\A n \in Invocations : \A e \in Emits :
            LET v == invocations[n]
            IN (/\ Failed(v)
                /\ e > v.emit
                /\ Returned(e)
                /\ emits[e].this = emits[v.emit].this
                /\ emits[e].event = emits[v.emit].event)
               => /\ v.index <= Len(Invoked(e))
                  /\ Invoked(e)[v.index] = v.listener)

\* a subscriber threw in one emit and another rejected; the next emit on the
\* kind invoked both again
C10_Witness ==
    \E e1, e2 \in Emits :
        /\ e1 < e2
        /\ Returned(e2)
        /\ emits[e1].event = emits[e2].event
        /\ Len(InvocationsOf(e1)) = 2
        /\ InvocationsOf(e1)[1].state = "rejected"
        /\ InvocationsOf(e1)[2].state = "caught"
        /\ Invoked(e2) = Invoked(e1)

----------------------------------------------------------------------------
(* Reading the executing emit call *)

\* an emit call is executing
Executing == stack # << >>

\* the list the executing emit call iterates over, as it is now
IteratedList == heap[stack[1].listeners]

\* s is a prefix of t
IsPrefix(s, t) ==
    /\ Len(s) <= Len(t)
    /\ SubSeq(t, 1, Len(s)) = s

----------------------------------------------------------------------------

\* C11: emit is total (no subscriber calls emit from its own execution):
\* every step of an executing emit call that does not end it moves forEach
\* to the next index, the index never passes the length read at the call by
\* more than one, an executing emit call does return, and what it returns
\* is a promise that fulfils: no emit call ends in a failure.
C11_EmitTotal ==
    /\ [][ (Executing /\ stack' # << >>) =>
              /\ stack'[1].emit = stack[1].emit
              /\ stack'[1].len = stack[1].len
              /\ stack'[1].i = stack[1].i + 1 ]_vars
    /\ [](Executing => stack[1].i <= stack[1].len + 1)
    /\ [](~Executing => \A e \in Emits : emits[e].result = "fulfilled")
    /\ (Executing ~> ~Executing)

\* an emit call on a list of two subscribers has returned although one
\* subscriber subscribed a handler while it ran and the other threw
C11_Witness ==
    \E e \in Emits :
        /\ emits[e].result = "fulfilled"
        /\ Len(emits[e].listeners) = 2
        /\ Len(InvocationsOf(e)) = 2
        /\ InvocationsOf(e)[1].calledOn
        /\ InvocationsOf(e)[2].state = "caught"

\* the store the construction of the instance builds when the instance is
\* alone
ConstructedStore(this) == New(EmptyStore, this, ctorArgs[this])

\* the list the constructor leaves a kind with: the replacement handler of
\* an override entry that is defined, else the logging closure when the
\* flag is set, else the default handler
Constructed(this, event) ==
    IF Overridden(this, event) THEN << Replacement(this, event) >>
    ELSE IF ctorArgs[this].overrideAll THEN << logHandler(event, this) >>
    ELSE << defaultEventCallbacks(event) >>

\* C12: each instance has its own registry.  With two instances, every list
\* of an instance is what its own construction built followed by what the
\* on() calls made on that instance added, whatever was constructed or
\* subscribed on the other; no array is in the maps of both; and an emit on
\* an instance invokes the handlers of that instance's list alone.
C12_InstancesIndependent ==
    \A this \in Instances :
      LET alone == ConstructedStore(this)
      IN
        /\ \A k \in BeaconEvent :
              Listeners(this, k) = ListenersIn(alone, this, k) \o Subscribed(this, k, Len(ons))
        /\ \A other \in Instances \ { this } : \A k, j \in BeaconEvent :
              callbackMap[this][k] # callbackMap[other][j]
        /\ \A e \in Emits :
              emits[e].this = this =>
                LET own == ListenersIn(alone, this, emits[e].event)
                             \o Subscribed(this, emits[e].event, emits[e].ons)
                IN /\ Len(Invoked(e)) <= Len(own)
                   /\ \A j \in 1..Len(Invoked(e)) : Invoked(e)[j] = own[j]

\* the first instance was constructed with the flag and a handler was
\* subscribed on it; an emit on the second instance, on the same kind,
\* invoked the default handler alone
C12_Witness ==
    /\ Instances = { 1, 2 }
    /\ ctorArgs[1].overrideAll
    /\ ~ctorArgs[2].overrideAll
    /\ ctorArgs[2].eventsToOverride = << >>
    /\ ons = << OnCall(1, "CHANNEL_CLOSED", Fn("B")) >>
    /\ \E e \in Emits :
          /\ emits[e].this = 2
          /\ emits[e].event = "CHANNEL_CLOSED"
          /\ emits[e].ons = 1
          /\ Returned(e)
          /\ Invoked(e) = << Fn("showChannelClosedAlert") >>

\* C13: subscription is not retroactive.  An emit call invokes the list as
\* construction built it followed by the handlers of the on() calls made
\* before the emit call began, and no more: an on() call made later, also
\* one a subscriber makes while that emit call is executing, adds nothing
\* to what the emit call invokes; the handler is invoked by the emit calls
\* on the kind that begin after the on() call.  (The list construction
\* built is the one the registry holds before any call.)
C13_NotRetroactive ==
    /\ CallsMade = 0 =>
          \A this \in Instances : \A k \in BeaconEvent :
              Listeners(this, k) = Constructed(this, k)
    /\ \A e \in Emits :
          LET built  == Constructed(emits[e].this, emits[e].event)
              before == built \o Subscribed(emits[e].this, emits[e].event, emits[e].ons)
          IN /\ Len(Invoked(e)) <= Len(before)
             /\ \A j \in 1..Len(Invoked(e)) : Invoked(e)[j] = before[j]
             /\ Returned(e) => Invoked(e) = before

\* a subscriber running in an emit call subscribed B to the kind; that emit
\* call returned without invoking B, and the next emit call on the kind
\* invoked B last
C13_Witness ==
    \E e1, e2 \in Emits :
        /\ e1 < e2
        /\ emits[e1].this = emits[e2].this
        /\ emits[e1].event = emits[e2].event
        /\ Returned(e1)
        /\ Returned(e2)
        /\ InvocationsOf(e1)[1].calledOn
        /\ ons = << OnCall(emits[e1].this, emits[e1].event, Fn("B")) >>
        /\ Invoked(e1) = << Fn("A") >>
        /\ Invoked(e2) = << Fn("A"), Fn("B") >>

\* C14, as claimed: in single-threaded execution, with handlers that may
\* call back into the dispatcher, the list of the kind an emit call is
\* iterating is not mutated by on() from the first invocation to the last:
\* a step of the executing emit call that is not its last invocation leaves
\* the list as it is.
C14_ListNeverMutatedDuringEmit ==
    [][ (/\ Executing
         /\ stack[1].listeners # 0
         /\ stack[1].i < stack[1].len)
        => heap'[stack[1].listeners] = IteratedList ]_vars

\* C14, amended: a kind's list can be mutated by on() between the first and
\* the last subscriber invocation of one emit call on that kind, namely by
\* the on() calls the invoked subscribers make from their own bodies: the
\* list changes, while the emit call executes, only in a step that invokes
\* a subscriber which calls on(), never in another step of emit (its
\* return, its catch block); such a change only appends (the entries the
\* list had stay in place); and the emit call invokes exactly the
\* subscribers the list held when emit was called, in that order: an
\* appended handler is not invoked by it.
C14_OnlySubscribersMutateDuringEmit ==
    /\ [][ (/\ Executing
             /\ stack[1].listeners # 0
             /\ heap'[stack[1].listeners] # IteratedList)
            => /\ Len(invocations') = Len(invocations) + 1
               /\ invocations'[Len(invocations')].emit = stack[1].emit
               /\ invocations'[Len(invocations')].calledOn
               /\ IsPrefix(IteratedList, heap'[stack[1].listeners])
               /\ Len(heap'[stack[1].listeners]) > Len(IteratedList) ]_vars
    /\ [](\A e \in Emits :
            /\ IsPrefix(Invoked(e), emits[e].listeners)
            /\ Returned(e) => Invoked(e) = emits[e].listeners)

\* the first of two subscribers subscribed a handler to the emitted kind
\* while it ran; the emit call then invoked the second subscriber and
\* returned, and the list has three entries
C14_Witness ==
    \E e \in Emits :
        /\ Returned(e)
        /\ Len(emits[e].listeners) = 2
        /\ InvocationsOf(e)[1].calledOn
        /\ Invoked(e) = emits[e].listeners
        /\ Len(Listeners(emits[e].this, emits[e].event)) = 3

\* C15: the subscribers of one emit call are dispatched independently.
\* While forEach has an index left, the next subscriber can be invoked
\* whatever the subscribers invoked before it are still waiting for, and
\* when no call is executing each pending subscriber can complete, whichever
\* was invoked first: completions are in no fixed order.
C15_DispatchedIndependently ==
    /\ (Executing /\ ~forEachDone(stack[1])) => ENABLED InvokeListener(Undefined, "return")
    /\ ~Executing =>
          \A n \in Invocations :
              invocations[n].state = "awaiting" => ENABLED Settle(n, "fulfilled")

\* the second subscriber of an emit call was invoked and has completed
\* while the first is still pending
C15_Witness ==
    \E e \in Emits :
        /\ Len(InvocationsOf(e)) >= 2
        /\ InvocationsOf(e)[1].state = "awaiting"
        /\ InvocationsOf(e)[2].state = "fulfilled"

\* C16: after construction the registry only grows: in every step that
\* changes the store, every kind's list before the step is a prefix of the
\* kind's list after it (so the list of any earlier state is a prefix of the
\* list of any later one): on() and emit() remove, replace and reorder
\* nothing.
C16_RegistryMonotonic ==
    [][ (callbackMap' # callbackMap \/ heap' # heap) =>
          \A this \in Instances : \A k \in BeaconEvent :
              IsPrefix(Listeners(this, k),
                       ListenersIn(Store(callbackMap', heap'), this, k)) ]_vars

\* an emit call saw the list an override and one on() call left; after a
\* second on() call the list is that one with the new handler at its end
C16_Witness ==
    \E e \in Emits :
        /\ Returned(e)
        /\ Overridden(emits[e].this, emits[e].event)
        /\ emits[e].listeners = << Fn("A"), Fn("B") >>
        /\ Listeners(emits[e].this, emits[e].event) = << Fn("A"), Fn("B"), Fn("A") >>

\* C17: every failure of a subscriber, thrown or rejected, is logged exactly
\* once, and the entry names the kind of the emit call that invoked the
\* subscriber, also when emit calls on other kinds have been made since; an
\* invocation that has not failed has no log entry.
C17_FailureLoggedOnceWithKind ==
    /\ Len(errorLog) = Len(invocations)
    /\ \A n \in Invocations :
          errorLog[n] = IF Failed(invocations[n])
                        THEN << emits[invocations[n].emit].event >>
                        ELSE << >>

\* two emit calls on different kinds had subscribers pending at the same
\* time; the subscriber of the first rejected and was logged under the
\* first kind, the subscriber of the second threw and was logged under the
\* second, and a subscriber that completed has no entry
C17_Witness ==
    \E n, m, l \in Invocations :
        /\ invocations[n].emit = 1
        /\ invocations[m].emit = 2
        /\ invocations[l].emit = 2
        /\ emits[1].event = "CHANNEL_CLOSED"
        /\ emits[2].event = "PERMISSION_REQUEST_ERROR"
        /\ invocations[n].state = "rejected"
        /\ invocations[m].state = "caught"
        /\ invocations[l].state = "fulfilled"
        /\ errorLog[n] = << "CHANNEL_CLOSED" >>
        /\ errorLog[m] = << "PERMISSION_REQUEST_ERROR" >>
        /\ errorLog[l] = << >>

\* C18: when an emit call has returned, every subscriber of the list it was
\* called on has been invoked; hence the invocations of an earlier emit
\* call all come before the invocations of a later one, on the same kind or
\* another (what the subscribers wait for may complete in any order).
C18_AllInvokedBeforeReturn ==
    /\ \A e \in Emits :
          Returned(e) => Len(InvocationsOf(e)) = Len(emits[e].listeners)
    /\ \A n, m \in Invocations :
          n < m => invocations[n].emit <= invocations[m].emit
    /\ \A e \in Emits :
          (e < Len(emits) \/ ~Executing) => Returned(e)

\* two emit calls on different kinds have returned, the first with two
\* subscribers; the subscriber of the second has completed while those of
\* the first are pending
C18_Witness ==
    /\ Len(emits) = 2
    /\ emits[1].event # emits[2].event
    /\ Returned(1)
    /\ Returned(2)
    /\ Len(InvocationsOf(1)) = 2
    /\ \A j \in 1..2 : InvocationsOf(1)[j].state = "awaiting"
    /\ Len(InvocationsOf(2)) = 1
    /\ InvocationsOf(2)[1].state = "fulfilled"

\* C19: no list is ever empty: whatever the override object and the flag of
\* the construction and whatever on() and emit() calls followed, every kind
\* has a list with at least one entry, every emit call found listeners (the
\* branch without forEach was not taken) and every emit call that returned
\* invoked at least one handler.
C19_NoEmptyList ==
    /\ \A this \in Instances : \A k \in BeaconEvent : hasListeners(this, k)
    /\ \A e \in Emits :
          /\ emits[e].array # 0
          /\ Len(emits[e].listeners) >= 1
          /\ Returned(e) => Len(InvocationsOf(e)) >= 1

\* constructed with the flag and an override object whose entry for
\* CHANNEL_CLOSED is undefined: an emit call on CHANNEL_CLOSED invoked the
\* logging closure
C19_Witness ==
    \E e \in Emits :
        /\ ctorArgs[emits[e].this].overrideAll
        /\ InOverrideMap(emits[e].this, "CHANNEL_CLOSED")
        /\ ~Overridden(emits[e].this, "CHANNEL_CLOSED")
        /\ emits[e].event = "CHANNEL_CLOSED"
        /\ Returned(e)
        /\ Invoked(e) = << logHandler("CHANNEL_CLOSED", emits[e].this) >>

\* C20: on(k, h) changes the list of kind k alone: every step that makes
\* an on() call leaves the list of every other kind the sequence it was,
\* the kinds that have the same default handler function as k included,
\* with or without the override-all flag; and no two kinds of an instance
\* ever have the same array.
C20_OnChangesOneKind ==
    /\ [][ Len(ons') = Len(ons) + 1 =>
             LET c == ons'[Len(ons')]
             IN \A this \in Instances : \A k \in BeaconEvent :
                    (this # c.this \/ k # c.event) =>
                        ListenersIn(Store(callbackMap', heap'), this, k) = Listeners(this, k) ]_vars
    /\ [](\A this \in Instances :
            Cardinality({ callbackMap[this][k] : k \in DOMAIN callbackMap[this] })
              = Cardinality(BeaconEvent))

\* without the flag and without an override, a handler was subscribed to
\* PERMISSION_REQUEST_ERROR: its list has the handler, and the lists of the
\* three other kinds that have the same default handler have that default
\* handler alone
C20_Witness ==
    \E this \in Instances :
        /\ ~ctorArgs[this].overrideAll
        /\ ctorArgs[this].eventsToOverride = << >>
        /\ ons = << OnCall(this, "PERMISSION_REQUEST_ERROR", Fn("A")) >>
        /\ Listeners(this, "PERMISSION_REQUEST_ERROR") = << Fn("showErrorAlert"), Fn("A") >>
        /\ \A k \in { "OPERATION_REQUEST_ERROR", "SIGN_REQUEST_ERROR",
                       "BROADCAST_REQUEST_ERROR" } :
              Listeners(this, k) = << Fn("showErrorAlert") >>

====
